---- MODULE Spec2Model ----
(***************************************************************************)
(* Model of ffplayout-api/src/utils/files.rs: the path sandbox             *)
(* (norm_abs_path) and the file operations built on it (browser,           *)
(* create_directory, rename_file, remove_file_or_folder, upload).          *)
(*                                                                         *)
(* Strings are sequences of one-character strings, so that the textual     *)
(* steps of norm_abs_path (replace, starts_with, strip_prefix) and the     *)
(* component-wise steps of std::path::Path are modelled as they compute.   *)
(***************************************************************************)
EXTENDS Integers, Sequences, FiniteSets, TLC

VARIABLES
    root_path, input_path, result, npc,   \* the sandbox specification
    first,                                \* the result of the first of two sandbox calls
    storage_path,                         \* the channel's configured storage root
    fs,                                   \* the filesystem
    up,                                   \* the upload calls in progress
    ncalls,                               \* the calls made so far
    ev                                    \* the step just taken, for the claims

nvars == <<root_path, input_path, result, npc, first>>
fvars == <<storage_path, fs, up, ncalls, ev>>
vars == <<root_path, input_path, result, npc, first, storage_path, fs, up, ncalls, ev>>

----------------------------------------------------------------------------
(* Bounds of the model *)

\* longest input of the sandbox specification, in path segments
MaxSegs == 4
\* most parts of one upload stream, and most chunks of one part
MaxParts == 2
MaxChunks == 1
\* most calls (handler calls and upload calls) of one behaviour
MaxCalls == 2

----------------------------------------------------------------------------
(* String literals *)

SLASH == "/"
DOT == "."
S_dotdot == <<".", ".">>
S_dot == <<".">>
S_media == <<"m", "e", "d", "i", "a">>
S_mnt == <<"m", "n", "t">>
S_playlists == <<"p", "l", "a", "y", "l", "i", "s", "t", "s">>
S_tv_media == <<"t", "v", "-", "m", "e", "d", "i", "a">>
S_usr == <<"u", "s", "r">>
S_share == <<"s", "h", "a", "r", "e">>
S_var == <<"v", "a", "r">>
S_lib == <<"l", "i", "b">>
S_ffplayout == <<"f", "f", "p", "l", "a", "y", "o", "u", "t">>
S_home == <<"h", "o", "m", "e">>
S_user == <<"u">>
S_chan1 == <<"c", "h", "a", "n", "1">>
S_etc == <<"e", "t", "c">>
S_passwd == <<"p", "a", "s", "s", "w", "d">>
S_media1 == <<"m", "e", "d", "i", "a", "1">>
S_a == <<"a">>
S_b == <<"b">>
S_n == <<"n">>
S_ro == <<"r", "o">>
S_mp4 == <<"m", "p", "4">>
S_x_mp4 == <<"x", ".", "m", "p", "4">>
S_y_mp4 == <<"y", ".", "m", "p", "4">>
S_z_mp4 == <<"z", ".", "m", "p", "4">>
S_dotdot_y_mp4 == <<".", ".", "/", "y", ".", "m", "p", "4">>

----------------------------------------------------------------------------
(* str operations *)

\* str::starts_with
StartsWith(s, p) == Len(p) <= Len(s) /\ SubSeq(s, 1, Len(p)) = p

\* str::strip_prefix: an Option<&str>
None == [some |-> FALSE, val |-> <<>>]
Some(v) == [some |-> TRUE, val |-> v]
StripPrefix(s, p) ==
    IF StartsWith(s, p) THEN Some(SubSeq(s, Len(p) + 1, Len(s))) ELSE None

\* Option::and_then(|s| s.strip_prefix('/'))
AndThenStripSlash(o) == IF o.some THEN StripPrefix(o.val, <<SLASH>>) ELSE None

UnwrapOr(o, d) == IF o.some THEN o.val ELSE d

\* str::replace(pat, ""): every non-overlapping match, left to right, removed
RECURSIVE ReplaceWithEmpty(_, _)
ReplaceWithEmpty(s, pat) ==
    IF s = <<>> THEN <<>>
    ELSE IF StartsWith(s, pat)
         THEN ReplaceWithEmpty(SubSeq(s, Len(pat) + 1, Len(s)), pat)
         ELSE <<Head(s)>> \o ReplaceWithEmpty(Tail(s), pat)

\* the segments of s between '/' separators, empty segments dropped
RECURSIVE SplitAcc(_, _, _)
SplitAcc(s, cur, acc) ==
    IF s = <<>> THEN (IF cur = <<>> THEN acc ELSE Append(acc, cur))
    ELSE IF Head(s) = SLASH
         THEN SplitAcc(Tail(s), <<>>, IF cur = <<>> THEN acc ELSE Append(acc, cur))
         ELSE SplitAcc(Tail(s), Append(cur, Head(s)), acc)

Segments(s) == SplitAcc(s, <<>>, <<>>)

\* segments joined by '/'
RECURSIVE JoinSegs(_)
JoinSegs(segs) ==
    IF segs = <<>> THEN <<>>
    ELSE IF Len(segs) = 1 THEN segs[1]
    ELSE segs[1] \o <<SLASH>> \o JoinSegs(Tail(segs))

----------------------------------------------------------------------------
(* relative_path::RelativePath *)

\* RelativePath::normalize over the components: "." dropped, ".." pops a
\* preceding normal component and is kept when there is none
RECURSIVE NormalizeAcc(_, _)
NormalizeAcc(segs, stack) ==
    IF segs = <<>> THEN stack
    ELSE LET c == Head(segs) IN
         IF c = S_dot THEN NormalizeAcc(Tail(segs), stack)
         ELSE IF c = S_dotdot
              THEN IF stack # <<>> /\ stack[Len(stack)] # S_dotdot
                   THEN NormalizeAcc(Tail(segs), SubSeq(stack, 1, Len(stack) - 1))
                   ELSE NormalizeAcc(Tail(segs), Append(stack, c))
              ELSE NormalizeAcc(Tail(segs), Append(stack, c))

\* RelativePath::new(s).normalize().to_string()
RelativeNormalize(s) == JoinSegs(NormalizeAcc(Segments(s), <<>>))

\* faulty variant: the traversal segments are not stripped
StripTraversal_NoReplace(s) == RelativeNormalize(s)

\* RelativePath::new(s).normalize().to_string().replace("../", "")
StripTraversal(s) == ReplaceWithEmpty(RelativeNormalize(s), <<".", ".", SLASH>>)

----------------------------------------------------------------------------
(* std::path::Path (unix) *)

IsAbsolute(p) == p # <<>> /\ p[1] = SLASH

RootDir == <<SLASH>>

\* Path::components: the root, then the segments without "." (a leading "."
\* of a relative path is kept); ".." is kept as a component
PathComponents(p) ==
    LET keep(segs) == SelectSeq(segs, LAMBDA c : c # S_dot)
        of(segs) ==
            IF IsAbsolute(p) THEN <<RootDir>> \o keep(segs)
            ELSE IF segs # <<>> /\ segs[1] = S_dot THEN <<S_dot>> \o keep(segs)
            ELSE keep(segs)
    IN  of(Segments(p))

IsPrefixSeq(a, b) == Len(a) <= Len(b) /\ SubSeq(b, 1, Len(a)) = a

\* Path::starts_with: whole components
PathStartsWith(p, base) == IsPrefixSeq(PathComponents(base), PathComponents(p))

\* Path == Path compares components
PathEq(p, q) == PathComponents(p) = PathComponents(q)

\* Path::file_name().unwrap_or_default(): the last component when it is a
\* normal one, else nothing
FileName(p) ==
    LET last(cs) ==
            IF cs = <<>> THEN None
            ELSE IF cs[Len(cs)] \in {RootDir, S_dotdot, S_dot} THEN None
            ELSE Some(cs[Len(cs)])
    IN  last(PathComponents(p))

\* Path::join: an absolute argument replaces the path
PathJoin(base, p) ==
    IF IsAbsolute(p) THEN p
    ELSE IF base = <<>> THEN p
    ELSE IF base[Len(base)] = SLASH THEN base \o p
    ELSE base \o <<SLASH>> \o p

\* the location a component sequence denotes once ".." is resolved (the
\* parent of the root is the root)
RECURSIVE ResolveAcc(_, _)
ResolveAcc(cs, stack) ==
    IF cs = <<>> THEN stack
    ELSE LET c == Head(cs) IN
         IF c = S_dotdot
         THEN ResolveAcc(Tail(cs),
                         IF Len(stack) > 1 THEN SubSeq(stack, 1, Len(stack) - 1) ELSE stack)
         ELSE ResolveAcc(Tail(cs), Append(stack, c))

Resolve(p) == ResolveAcc(PathComponents(p), <<>>)

\* an absolute path string from its segments
Abs(segs) == <<SLASH>> \o JoinSegs(segs)

\* Path::parent: the path without its last component; none for the root
\* and for the empty path
PathParent(p) ==
    LET of(cs) ==
            IF cs = <<>> \/ cs = <<RootDir>> THEN None
            ELSE IF cs[1] = RootDir THEN Some(Abs(SubSeq(cs, 2, Len(cs) - 1)))
            ELSE Some(JoinSegs(SubSeq(cs, 1, Len(cs) - 1)))
    IN  of(PathComponents(p))

\* str::contains
RECURSIVE Contains(_, _)
Contains(s, pat) ==
    IF Len(s) < Len(pat) THEN FALSE
    ELSE StartsWith(s, pat) \/ Contains(Tail(s), pat)

----------------------------------------------------------------------------
(* norm_abs_path *)

HOME_DIR == Abs(<<S_home, S_user>>)

FOLDER_WHITELIST ==
    { Abs(<<S_media>>), Abs(<<S_mnt>>), Abs(<<S_playlists>>), Abs(<<S_tv_media>>),
      Abs(<<S_usr, S_share, S_ffplayout>>), Abs(<<S_var, S_lib, S_ffplayout>>) }

Forbidden == [ok |-> FALSE, err |-> "Forbidden", path |-> <<>>, suffix |-> <<>>, rel |-> <<>>]
Ok(path, suffix, rel) == [ok |-> TRUE, err |-> "", path |-> path, suffix |-> suffix, rel |-> rel]

\* lines 96-110: the two relativization branches
SourceRelative(root, input) ==
    LET of(path_relative, source_relative, path_suffix) ==
            IF StartsWith(input, root) \/ StartsWith(source_relative, path_relative)
            THEN UnwrapOr(AndThenStripSlash(StripPrefix(source_relative, path_relative)),
                          <<>>)
            ELSE UnwrapOr(AndThenStripSlash(StripPrefix(source_relative, path_suffix)),
                          source_relative)
    IN  of(StripTraversal(root), StripTraversal(input), UnwrapOr(FileName(root), <<>>))

\* faulty variant: the allow-list compared as strings, not by components
Whitelisted_StrPrefix(path) ==
    (\E f \in FOLDER_WHITELIST : StartsWith(path, f)) \/ StartsWith(path, HOME_DIR)

\* lines 114-115: the allow-list test
Whitelisted(path) ==
    (\E f \in FOLDER_WHITELIST : PathStartsWith(path, f)) \/ PathStartsWith(path, HOME_DIR)

norm_abs_path(root, input) ==
    LET checked(path, path_suffix, source_relative) ==
            IF ~Whitelisted(path) THEN Forbidden
            ELSE Ok(path, path_suffix, source_relative)
        joined(source_relative) ==
            checked(PathJoin(root, source_relative), UnwrapOr(FileName(root), <<>>),
                    source_relative)
    IN  joined(SourceRelative(root, input))

----------------------------------------------------------------------------
(* The filesystem the handlers act on.                                     *)
(* A node is the sequence of names below "/"; fs maps every existing node  *)
(* to a directory or to a regular file with an inode number and its data   *)
(* (a sequence of chunks).  There are no symbolic links.                   *)

DirEntry == [kind |-> "dir", ino |-> 0, data |-> <<>>]
FileEntry(i, d) == [kind |-> "file", ino |-> i, data |-> d]

NodeParent(n) == SubSeq(n, 1, Len(n) - 1)

NodeExists(f, n) == n \in DOMAIN f
NodeIsDir(f, n) == n \in DOMAIN f /\ f[n].kind = "dir"
NodeIsFile(f, n) == n \in DOMAIN f /\ f[n].kind = "file"
Children(f, n) == { c \in DOMAIN f : Len(c) = Len(n) + 1 /\ IsPrefixSeq(n, c) }

\* path resolution: every component is looked up in an existing directory;
\* ".." steps to the parent
RECURSIVE WalkAcc(_, _, _)
WalkAcc(f, cs, cur) ==
    IF cs = <<>> THEN Some(cur)
    ELSE IF ~NodeIsDir(f, cur) THEN None
    ELSE IF Head(cs) = S_dotdot
         THEN WalkAcc(f, Tail(cs), IF cur = <<>> THEN cur ELSE NodeParent(cur))
         ELSE WalkAcc(f, Tail(cs), Append(cur, Head(cs)))

Lookup(f, p) ==
    IF IsAbsolute(p) THEN WalkAcc(f, Tail(PathComponents(p)), <<>>) ELSE None

\* the path's last component is ".." (or the path is the root): no entry of
\* a directory is named by it
EndsInDotDot(p) ==
    LET of(cs) == Len(cs) <= 1 \/ cs[Len(cs)] = S_dotdot IN of(PathComponents(p))

\* Path::exists, Path::is_dir, Path::is_file
exists(f, p) == LET at(n) == n.some /\ NodeExists(f, n.val) IN at(Lookup(f, p))
is_dir(f, p) == LET at(n) == n.some /\ NodeIsDir(f, n.val) IN at(Lookup(f, p))
is_file(f, p) == LET at(n) == n.some /\ NodeIsFile(f, n.val) IN at(Lookup(f, p))

\* The environment: one directory of the storage root is the mount point
\* of a second device (a rename across it fails), and one directory is
\* read-only (no entry can be added to it, removed from it or renamed in it).
ChanNode == <<S_media, S_chan1>>
MountPoint == <<S_media, S_chan1, S_b>>
ReadOnlyDirs == { <<S_media, S_chan1, S_ro>> }

Writable(n) == n \notin ReadOnlyDirs
\* the device holding the directory entry n
DevOf(n) == IF IsPrefixSeq(MountPoint, NodeParent(n)) THEN "dev2" ELSE "dev1"

\* the smallest inode number no file of f and no open handle in `held` has
FreshIno(f, held) ==
    LET least(used) ==
            CHOOSE i \in 1..(Cardinality(used) + 1) :
                i \notin used /\ \A j \in 1..(i - 1) : j \in used
    IN  least({ f[n].ino : n \in DOMAIN f } \cup held)

Without(f, gone) == [n \in DOMAIN f \ gone |-> f[n]]
With(f, n, e) == [m \in DOMAIN f \cup {n} |-> IF m = n THEN e ELSE f[m]]

FsOk(f) == [ok |-> TRUE, fs |-> f]
FsErr(f) == [ok |-> FALSE, fs |-> f]

\* the subtree at s moved to d
MoveTree(f, s, d) ==
    LET under(r) == { n \in DOMAIN f : IsPrefixSeq(r, n) }
        tree(kept, moved) ==
            [n \in kept \cup moved |->
                IF n \in moved THEN f[s \o SubSeq(n, Len(d) + 1, Len(n))] ELSE f[n]]
    IN  tree(DOMAIN f \ (under(s) \cup under(d)),
             { d \o SubSeq(n, Len(s) + 1, Len(n)) : n \in under(s) })

\* rename(2), as tokio::fs::rename calls it
fs_rename(f, src, dst) ==
    LET at(s, d) ==
            IF \/ ~s.some \/ ~d.some
               \/ EndsInDotDot(src) \/ EndsInDotDot(dst)
            THEN FsErr(f)
            ELSE IF ~NodeExists(f, s.val) THEN FsErr(f)
            ELSE IF s.val = d.val THEN FsOk(f)
            ELSE IF \/ s.val = MountPoint \/ d.val = MountPoint
                    \/ DevOf(s.val) # DevOf(d.val)
                    \/ ~Writable(NodeParent(s.val)) \/ ~Writable(NodeParent(d.val))
            THEN FsErr(f)
            ELSE IF NodeIsFile(f, s.val)
            THEN IF NodeIsDir(f, d.val) THEN FsErr(f) ELSE FsOk(MoveTree(f, s.val, d.val))
            ELSE IF \/ NodeIsFile(f, d.val)
                    \/ IsPrefixSeq(s.val, d.val)
                    \/ (NodeIsDir(f, d.val) /\ Children(f, d.val) # {})
            THEN FsErr(f)
            ELSE FsOk(MoveTree(f, s.val, d.val))
    IN  at(Lookup(f, src), Lookup(f, dst))

\* tokio::fs::copy: the source is a regular file; the target is created
\* (a new inode) or, when it is a regular file, overwritten
fs_copy(f, src, dst, held) ==
    LET at(s, d) ==
            IF ~s.some \/ ~d.some \/ EndsInDotDot(dst) THEN FsErr(f)
            ELSE IF ~NodeIsFile(f, s.val) \/ NodeIsDir(f, d.val) THEN FsErr(f)
            ELSE IF NodeIsFile(f, d.val)
            THEN FsOk(With(f, d.val,
                           FileEntry(f[d.val].ino,
                                     IF s.val = d.val THEN <<>> ELSE f[s.val].data)))
            ELSE IF ~Writable(NodeParent(d.val)) THEN FsErr(f)
            ELSE FsOk(With(f, d.val, FileEntry(FreshIno(f, held), f[s.val].data)))
    IN  at(Lookup(f, src), Lookup(f, dst))

\* tokio::fs::remove_file
fs_remove_file(f, p) ==
    LET at(n) ==
            IF ~n.some \/ EndsInDotDot(p) THEN FsErr(f)
            ELSE IF ~NodeIsFile(f, n.val) \/ ~Writable(NodeParent(n.val)) THEN FsErr(f)
            ELSE FsOk(Without(f, {n.val}))
    IN  at(Lookup(f, p))

\* faulty variant: remove_dir_all, the directory removed with all it contains
fs_remove_dir_all(f, p) ==
    LET at(n) ==
            IF ~n.some \/ EndsInDotDot(p) THEN FsErr(f)
            ELSE IF \/ ~NodeIsDir(f, n.val) \/ n.val = <<>>
                    \/ n.val = MountPoint \/ ~Writable(NodeParent(n.val))
            THEN FsErr(f)
            ELSE FsOk(Without(f, { m \in DOMAIN f : IsPrefixSeq(n.val, m) }))
    IN  at(Lookup(f, p))

\* tokio::fs::remove_dir: only an empty directory is removed
fs_remove_dir(f, p) ==
    LET at(n) ==
            IF ~n.some \/ EndsInDotDot(p) THEN FsErr(f)
            ELSE IF \/ ~NodeIsDir(f, n.val) \/ Children(f, n.val) # {}
                    \/ n.val = MountPoint \/ ~Writable(NodeParent(n.val))
            THEN FsErr(f)
            ELSE FsOk(Without(f, {n.val}))
    IN  at(Lookup(f, p))

\* tokio::fs::create_dir_all: every missing directory of the path, the
\* outermost first; an existing directory is left as it is
RECURSIVE MkdirAcc(_, _, _)
MkdirAcc(f, cs, cur) ==
    IF ~NodeIsDir(f, cur) THEN FsErr(f)
    ELSE IF cs = <<>> THEN FsOk(f)
    ELSE IF Head(cs) = S_dotdot
         THEN MkdirAcc(f, Tail(cs), IF cur = <<>> THEN cur ELSE NodeParent(cur))
         ELSE LET nxt == Append(cur, Head(cs)) IN
              IF NodeExists(f, nxt) THEN MkdirAcc(f, Tail(cs), nxt)
              ELSE IF ~Writable(cur) THEN FsErr(f)
              ELSE MkdirAcc(With(f, nxt, DirEntry), Tail(cs), nxt)

\* faulty variant: create_dir, which makes one directory and fails on an
\* existing one and on a missing parent
fs_create_dir(f, p) ==
    LET n == Lookup(f, p) IN
    IF ~n.some \/ EndsInDotDot(p) THEN FsErr(f)
    ELSE IF NodeExists(f, n.val) \/ ~Writable(NodeParent(n.val)) THEN FsErr(f)
    ELSE FsOk(With(f, n.val, DirEntry))

fs_create_dir_all(f, p) ==
    IF IsAbsolute(p) THEN MkdirAcc(f, Tail(PathComponents(p)), <<>>) ELSE FsErr(f)

\* std::fs::File::create: a new empty file, or an existing regular file
\* truncated; the inode written through the returned handle
fs_create(f, p, held) ==
    LET new(n, i) == [ok |-> TRUE, fs |-> With(f, n.val, FileEntry(i, <<>>)), ino |-> i]
        at(n) ==
            IF ~n.some \/ EndsInDotDot(p) THEN [ok |-> FALSE, fs |-> f, ino |-> 0]
            ELSE IF NodeIsDir(f, n.val) THEN [ok |-> FALSE, fs |-> f, ino |-> 0]
            ELSE IF NodeIsFile(f, n.val) THEN new(n, f[n.val].ino)
            ELSE IF ~Writable(NodeParent(n.val)) THEN [ok |-> FALSE, fs |-> f, ino |-> 0]
            ELSE new(n, FreshIno(f, held))
    IN  at(Lookup(f, p))

\* a chunk written at the handle's offset; bytes between the end of the
\* file and the offset read as a hole
RECURSIVE WriteAt(_, _, _)
WriteAt(data, off, chunk) ==
    IF off < Len(data) THEN [data EXCEPT ![off + 1] = chunk]
    ELSE IF off = Len(data) THEN Append(data, chunk)
    ELSE WriteAt(Append(data, "hole"), off, chunk)

\* File::write_all through an open handle: the file that has the handle's
\* inode receives the chunk; an unlinked inode has no name any more
fs_write(f, ino, off, chunk) ==
    [n \in DOMAIN f |->
        IF f[n].kind = "file" /\ f[n].ino = ino
        THEN FileEntry(ino, WriteAt(f[n].data, off, chunk))
        ELSE f[n]]

----------------------------------------------------------------------------
(* The handlers.  Each returns what the call returns (res, out), the       *)
(* filesystem it leaves, the paths norm_abs_path gave it (sandboxed), the  *)
(* paths it handed to filesystem calls (touched) and the mutating calls it *)
(* made, in order (calls).                                                 *)

\* playout_config(conn, &id): the channel's extensions (the storage root is
\* the variable storage_path)
extensions == { S_mp4 }

R_Ok == "Ok"
R_Forbidden == "Forbidden: Access forbidden: Folder cannot be opened."
R_IoError == "io error"
R_SourceNotExist == "BadRequest: Source file not exist!"
R_TargetExists == "BadRequest: Target file already exists!"
R_RemoveFailed == "BadRequest: Removing File not possible!"
R_CopyFailed == "BadRequest: Error in file copy!"
R_Internal == "InternalServerError"
R_Panic == "panic: unwrap on None"
R_CreateDirFailed == "BadRequest: create_dir_all error"
R_SourceNotExists == "BadRequest: Source does not exists!"
R_MustBeEmpty == "BadRequest: Delete folder failed! (Folder must be empty)"
R_DeleteFileFailed == "BadRequest: Delete file failed!"
R_TargetFolderMissing == "BadRequest: Target folder not exists!"
R_Conflict == "Conflict: Target already exists!"
R_StreamIncomplete == "multipart error: stream is incomplete"
R_StreamOther == "multipart error: other"

NoOut == [source |-> <<>>, target |-> <<>>]

Ret(res, f, sandboxed, touched, calls, out) ==
    [res |-> res, fs |-> f, sandboxed |-> sandboxed, touched |-> touched,
     calls |-> calls, out |-> out]

\* file_extension(path): the part of the file name after its last '.', none
\* when the name has no '.' other than a leading one
RECURSIVE LastDot(_, _)
LastDot(name, i) ==
    IF i = 0 THEN 0 ELSE IF name[i] = DOT THEN i ELSE LastDot(name, i - 1)

file_extension(name) ==
    LET i == LastDot(name, Len(name)) IN
    IF i <= 1 THEN None ELSE Some(SubSeq(name, i + 1, Len(name)))

\* str::to_lowercase over the letters the model's names use
LowerChar(c) ==
    CASE c = "M" -> "m" [] c = "P" -> "p" [] c = "X" -> "x" [] OTHER -> c
to_lowercase(str) == [i \in 1..Len(str) |-> LowerChar(str[i])]

\* lines 147-151
BrowseParentPath(n) ==
    IF n.rel # <<>> THEN PathParent(n.path).val ELSE storage_path

\* lines 156-175: the directories of parent_path
BrowseReadsParent(n, folders_only) ==
    ~PathEq(n.path, BrowseParentPath(n)) /\ ~folders_only

\* fs::read_dir: the names of a directory's entries
ReadDir(f, p) == { c[Len(c)] : c \in Children(f, Lookup(f, p).val) }

\* lines 182-206: the listed folders and the files whose extension is allowed;
\* every child whose path contains "/." is skipped
BrowseVisible(f, path) ==
    { name \in ReadDir(f, path) : ~Contains(PathJoin(path, name), <<SLASH, DOT>>) }

BrowseFolders(f, path) ==
    { name \in BrowseVisible(f, path) : is_dir(f, PathJoin(path, name)) }

BrowseFiles(f, path, folders_only) ==
    { name \in BrowseVisible(f, path) :
        /\ is_file(f, PathJoin(path, name))
        /\ ~folders_only
        /\ LET ext == file_extension(name) IN
           ext.some /\ to_lowercase(ext.val) \in extensions }

\* lines 212-213: the files MediaProbe::new is called on
ProbedFiles(f, source, folders_only) ==
    LET at(n) ==
            IF n.ok /\ is_dir(f, n.path) THEN BrowseFiles(f, n.path, folders_only) ELSE {}
    IN  at(norm_abs_path(storage_path, source))

\* faulty variant: a file whose probe failed stays in the listing
Probed_KeepsFailed(files, probe_err) == files

\* lines 212-229: the files whose probe succeeded are the listed files
Probed(files, probe_err) == files \ probe_err

\* browser; probe_err are the files whose MediaProbe::new returns Err.
\* The listing's order (natural_lexical_cmp) is not modelled: the lists are
\* given as sets.
browser(f, source, folders_only, probe_err) ==
    LET listing(n, path, parent_path, reads_parent, touched) ==
            IF reads_parent /\ ~is_dir(f, parent_path)
            THEN Ret(R_IoError, f, {path}, {parent_path}, <<>>, NoOut)
            ELSE IF ~is_dir(f, path)
            THEN Ret(R_IoError, f, {path}, touched, <<>>, NoOut)
            ELSE Ret(R_Ok, f, {path}, touched, <<>>,
                     [source |-> n.rel, parent |-> n.suffix,
                      parent_folders |->
                          IF reads_parent
                          THEN { name \in ReadDir(f, parent_path) :
                                   is_dir(f, PathJoin(parent_path, name)) }
                          ELSE {},
                      folders |-> BrowseFolders(f, path),
                      files |-> Probed(BrowseFiles(f, path, folders_only), probe_err),
                      folders_only |-> folders_only])
        paths(n, parent_path, reads_parent) ==
            listing(n, n.path, parent_path, reads_parent,
                    {n.path} \cup (IF reads_parent THEN {parent_path} ELSE {}))
        at(n) ==
            IF ~n.ok THEN Ret(R_Forbidden, f, {}, {}, <<>>, NoOut)
            ELSE paths(n, BrowseParentPath(n), BrowseReadsParent(n, folders_only))
    IN  at(norm_abs_path(storage_path, source))

\* faulty variant: the directory is created at the raw input joined to the root
create_directory_RawPath(f, source) ==
    LET n == norm_abs_path(storage_path, source)
        raw == PathJoin(storage_path, source)
    IN  IF ~n.ok THEN Ret(R_Forbidden, f, {}, {}, <<>>, NoOut)
        ELSE LET r == fs_create_dir_all(f, raw) IN
             IF ~r.ok THEN Ret(R_CreateDirFailed, r.fs, {n.path}, {raw},
                               <<"create_dir_all:err">>, NoOut)
             ELSE Ret(R_Ok, r.fs, {n.path}, {raw}, <<"create_dir_all:ok">>, NoOut)

\* faulty variant: the directory is created before the sandbox result is looked at
create_directory_CreateFirst(f, source) ==
    LET n == norm_abs_path(storage_path, source)
        r == fs_create_dir_all(f, PathJoin(storage_path, StripTraversal(source)))
    IN  IF ~n.ok THEN Ret(R_Forbidden, r.fs, {}, {}, <<>>, NoOut)
        ELSE IF ~r.ok THEN Ret(R_CreateDirFailed, r.fs, {n.path}, {n.path},
                               <<"create_dir_all:err">>, NoOut)
        ELSE Ret(R_Ok, r.fs, {n.path}, {n.path}, <<"create_dir_all:ok">>, NoOut)

create_directory(f, source) ==
    LET made(n, r) ==
            IF ~r.ok THEN Ret(R_CreateDirFailed, r.fs, {n.path}, {n.path},
                              <<"create_dir_all:err">>, NoOut)
            ELSE Ret(R_Ok, r.fs, {n.path}, {n.path}, <<"create_dir_all:ok">>, NoOut)
        at(n) ==
            IF ~n.ok THEN Ret(R_Forbidden, f, {}, {}, <<>>, NoOut)
            ELSE made(n, fs_create_dir_all(f, n.path))
    IN  at(norm_abs_path(storage_path, source))

MoveObject(source, target) ==
    [source |-> UnwrapOr(FileName(source), <<>>), target |-> UnwrapOr(FileName(target), <<>>)]

\* faulty variant: a failed removal of the source is not reported
copy_and_delete_IgnoresRemoveError(f, source, target, held) ==
    LET c == fs_copy(f, source, target, held)
        d == fs_remove_file(c.fs, source)
    IN  IF c.ok
        THEN [res |-> R_Ok, fs |-> d.fs,
              calls |-> <<"copy:ok", IF d.ok THEN "remove_file:ok" ELSE "remove_file:err">>]
        ELSE [res |-> R_CopyFailed, fs |-> c.fs, calls |-> <<"copy:err">>]

\* faulty variant: the source is removed although the copy failed
copy_and_delete_RemovesAnyway(f, source, target, held) ==
    LET c == fs_copy(f, source, target, held)
        d == fs_remove_file(c.fs, source)
    IN  IF c.ok
        THEN [res |-> IF d.ok THEN R_Ok ELSE R_RemoveFailed, fs |-> d.fs,
              calls |-> <<"copy:ok", IF d.ok THEN "remove_file:ok" ELSE "remove_file:err">>]
        ELSE [res |-> R_CopyFailed, fs |-> d.fs, calls |-> <<"copy:err">>]

\* copy_and_delete: [res, fs, calls]
copy_and_delete(f, source, target, held) ==
    LET removed(d) ==
            IF ~d.ok
            THEN [res |-> R_RemoveFailed, fs |-> d.fs,
                  calls |-> <<"copy:ok", "remove_file:err">>]
            ELSE [res |-> R_Ok, fs |-> d.fs, calls |-> <<"copy:ok", "remove_file:ok">>]
        copied(c) ==
            IF c.ok THEN removed(fs_remove_file(c.fs, source))
            ELSE [res |-> R_CopyFailed, fs |-> c.fs, calls |-> <<"copy:err">>]
    IN  copied(fs_copy(f, source, target, held))

\* faulty variant: the move is always done by copy and delete
rename_CopyFirst(f, source, target, held) ==
    LET cd == copy_and_delete(f, source, target, held) IN
    [res |-> cd.res, fs |-> cd.fs, calls |-> cd.calls]

\* rename: [res, fs, calls]
rename(f, source, target, held) ==
    LET fallback(cd) ==
            [res |-> cd.res, fs |-> cd.fs, calls |-> <<"rename:err">> \o cd.calls]
        renamed(r) ==
            IF r.ok THEN [res |-> R_Ok, fs |-> r.fs, calls |-> <<"rename:ok">>]
            ELSE fallback(copy_and_delete(r.fs, source, target, held))
    IN  renamed(fs_rename(f, source, target))

\* lines 326-328: an existing directory as target gets the source's file name
AdjustedTarget(f, source_path, target_path) ==
    IF is_dir(f, target_path)
    THEN PathJoin(target_path, FileName(source_path).val)
    ELSE target_path

rename_file(f, source, target, held) ==
    LET moved(r, sb, tc, source_path, target_path) ==
            Ret(r.res, r.fs, sb, tc, r.calls,
                IF r.res = R_Ok THEN MoveObject(source_path, target_path) ELSE NoOut)
        adjusted(sb, source_path, raw_target, target_path) ==
            IF is_file(f, target_path)
            THEN Ret(R_TargetExists, f, sb, {source_path, raw_target, target_path},
                     <<>>, NoOut)
            ELSE IF is_file(f, source_path) /\ PathParent(target_path).some
            THEN moved(rename(f, source_path, target_path, held), sb,
                       {source_path, raw_target, target_path}, source_path, target_path)
            ELSE Ret(R_Internal, f, sb, {source_path, raw_target, target_path},
                     <<>>, NoOut)
        checked(sb, source_path, target_path, source_parent) ==
            IF ~exists(f, source_path)
            THEN Ret(R_SourceNotExist, f, sb, {source_path}, <<>>, NoOut)
            ELSE IF /\ (is_dir(f, source_path) \/ is_file(f, source_path))
                    /\ source_parent.some
                    /\ PathEq(source_parent.val, target_path)
            THEN moved(rename(f, source_path, target_path, held), sb,
                       {source_path, target_path}, source_path, target_path)
            ELSE IF is_dir(f, target_path) /\ ~FileName(source_path).some
            THEN Ret(R_Panic, f, sb, {source_path, target_path}, <<>>, NoOut)
            ELSE adjusted(sb, source_path, target_path,
                          AdjustedTarget(f, source_path, target_path))
        at(s, t) ==
            IF ~s.ok THEN Ret(R_Forbidden, f, {}, {}, <<>>, NoOut)
            ELSE IF ~t.ok THEN Ret(R_Forbidden, f, {s.path}, {}, <<>>, NoOut)
            ELSE checked({s.path, t.path}, s.path, t.path, PathParent(s.path))
    IN  at(norm_abs_path(storage_path, source), norm_abs_path(storage_path, target))

remove_file_or_folder(f, source_path) ==
    LET dir_removed(source, r) ==
            IF r.ok THEN Ret(R_Ok, r.fs, {source}, {source}, <<"remove_dir:ok">>, NoOut)
            ELSE Ret(R_MustBeEmpty, r.fs, {source}, {source}, <<"remove_dir:err">>, NoOut)
        file_removed(source, r) ==
            IF r.ok THEN Ret(R_Ok, r.fs, {source}, {source}, <<"remove_file:ok">>, NoOut)
            ELSE Ret(R_DeleteFileFailed, r.fs, {source}, {source},
                     <<"remove_file:err">>, NoOut)
        at(n, source) ==
            IF ~n.ok THEN Ret(R_Forbidden, f, {}, {}, <<>>, NoOut)
            ELSE IF ~exists(f, source)
            THEN Ret(R_SourceNotExists, f, {source}, {source}, <<>>, NoOut)
            ELSE IF is_dir(f, source) THEN dir_removed(source, fs_remove_dir(f, source))
            ELSE IF is_file(f, source) THEN file_removed(source, fs_remove_file(f, source))
            ELSE Ret(R_Internal, f, {source}, {source}, <<>>, NoOut)
        sandboxed(n) == at(n, n.path)
    IN  sandboxed(norm_abs_path(storage_path, source_path))

\* valid_path: [res, path]
valid_path(f, path) ==
    LET at(n) ==
            IF ~n.ok THEN [res |-> R_Forbidden, path |-> <<>>]
            ELSE IF ~is_dir(f, n.path) THEN [res |-> R_TargetFolderMissing, path |-> n.path]
            ELSE [res |-> R_Ok, path |-> n.path]
    IN  at(norm_abs_path(storage_path, path))

----------------------------------------------------------------------------
(* upload, one step per suspension point of the handler *)

Uploaders == {1, 2}

\* sanitize_filename::sanitize: the illegal characters removed, a name of
\* dots only replaced by the empty name
IllegalChars == { "/", "?", "<", ">", "\\", ":", "*", "|", "\"" }
sanitize(name) ==
    LET t == SelectSeq(name, LAMBDA c : c \notin IllegalChars) IN
    IF t # <<>> /\ \A i \in 1..Len(t) : t[i] = DOT THEN <<>> ELSE t

\* the 20 random alphanumeric characters of a part without a file name
rand_string ==
    <<"r", "4", "n", "d", "r", "4", "n", "d", "r", "4",
      "n", "d", "r", "4", "n", "d", "r", "4", "n", "d">>

\* content_disposition.get_filename().map_or_else(|| rand_string, sanitize)
PartFilename(client_name) ==
    IF client_name.some THEN sanitize(client_name.val) ELSE rand_string

\* faulty variant: the part's file name is joined to an absolute destination too
UploadFilepath_JoinsName(f, path, abs_path, filename) ==
    IF abs_path THEN [res |-> R_Ok, path |-> PathJoin(path, filename), sandboxed |-> {}]
    ELSE LET v == valid_path(f, path) IN
         IF v.res # R_Ok
         THEN [res |-> v.res, path |-> <<>>,
               sandboxed |-> IF v.res = R_Forbidden THEN {} ELSE {v.path}]
         ELSE [res |-> R_Ok, path |-> PathJoin(v.path, filename), sandboxed |-> {v.path}]

\* lines 411-417: [res, path, sandboxed]
UploadFilepath(f, path, abs_path, filename) ==
    LET at(v) ==
            IF v.res # R_Ok
            THEN [res |-> v.res, path |-> <<>>,
                  sandboxed |-> IF v.res = R_Forbidden THEN {} ELSE {v.path}]
            ELSE [res |-> R_Ok, path |-> PathJoin(v.path, filename), sandboxed |-> {v.path}]
    IN  IF abs_path THEN [res |-> R_Ok, path |-> path, sandboxed |-> {}]
        ELSE at(valid_path(f, path))

\* faulty variant: the test asks for a directory
TargetTaken_IsDir(f, filepath) == is_dir(f, filepath)

\* faulty variant: a target another call has checked or opened counts as taken
TargetTaken_Locked(f, filepath) ==
    \/ is_file(f, filepath)
    \/ \E v \in Uploaders :
          up[v].pc \in {"create", "stream"} /\ PathEq(up[v].filepath, filepath)

\* line 428: the part's target is taken
TargetTaken(f, filepath) == is_file(f, filepath)

\* faulty variant: the wrong error is matched
RemovesOnError_WrongMessage(e) == e = R_StreamOther

\* line 443: which stream errors make upload remove the file
RemovesOnError(e) == e = R_StreamIncomplete

Idle ==
    [pc |-> "idle", path |-> <<>>, abs_path |-> FALSE, part |-> 0, filepath |-> <<>>,
     sandboxed |-> {}, ino |-> 0, off |-> 0, res |-> ""]

Held == { up[u].ino : u \in { v \in Uploaders : up[v].pc = "stream" } }

Ev(op, u, source, target, r) ==
    [op |-> op, u |-> u, source |-> source, target |-> target, err |-> "",
     probe_err |-> {}, res |-> r.res,
     sandboxed |-> r.sandboxed, touched |-> r.touched, calls |-> r.calls, out |-> r.out]

UpEv(op, u, res, sandboxed, touched, calls) ==
    [op |-> op, u |-> u, source |-> up[u].path, target |-> <<>>, err |-> "",
     probe_err |-> {}, res |-> res,
     sandboxed |-> sandboxed, touched |-> touched, calls |-> calls, out |-> NoOut]

----------------------------------------------------------------------------
(* Initial filesystem and the requests of the model *)

InitFs ==
    LET dirs == { <<>>, <<S_media>>, ChanNode, ChanNode \o <<S_a>>, MountPoint,
                  ChanNode \o <<S_ro>>, <<S_etc>> }
        files == { ChanNode \o <<S_a, S_x_mp4>>, ChanNode \o <<S_ro, S_z_mp4>>,
                   MountPoint \o <<S_x_mp4>>, <<S_etc, S_passwd>> }
    IN  [n \in dirs \cup files |->
            IF n \in dirs THEN DirEntry
            ELSE IF n = ChanNode \o <<S_a, S_x_mp4>> THEN FileEntry(1, <<"x0">>)
            ELSE IF n = ChanNode \o <<S_ro, S_z_mp4>> THEN FileEntry(2, <<"z0">>)
            ELSE IF n = MountPoint \o <<S_x_mp4>> THEN FileEntry(3, <<"bx0">>)
            ELSE FileEntry(4, <<"pw">>)]

\* config.storage.path: a root every path below which is allow-listed, and a
\* root below which only share/ffplayout is
StorageRoots == { Abs(<<S_media, S_chan1>>), Abs(<<S_usr>>) }

\* the source and target strings of the requests
Sources ==
    { <<>>, S_a, JoinSegs(<<S_a, S_x_mp4>>), JoinSegs(<<S_a, S_y_mp4>>), S_b,
      JoinSegs(<<S_ro, S_z_mp4>>), JoinSegs(<<S_ro, S_y_mp4>>), S_dotdot,
      JoinSegs(<<S_dotdot, S_dotdot, S_etc, S_passwd>>), JoinSegs(<<S_share, S_ffplayout>>) }

\* upload's destination_path with is_absolute false, and with it true
UploadDirs == { S_a, S_n }
UploadAbsPaths == { Abs(<<S_etc, S_passwd>>), Abs(<<S_media, S_chan1, S_a, S_y_mp4>>) }

\* the file names a part's content disposition declares; None: no name
ClientNames == { Some(S_x_mp4), Some(S_dotdot_y_mp4), None }

NoEv ==
    [op |-> "none", u |-> 0, source |-> <<>>, target |-> <<>>, err |-> "",
     probe_err |-> {}, res |-> "",
     sandboxed |-> {}, touched |-> {}, calls |-> <<>>, out |-> NoOut]

NoResult == [ok |-> FALSE, err |-> "none", path |-> <<>>, suffix |-> <<>>, rel |-> <<>>]

----------------------------------------------------------------------------
(* The handler specification *)

\* no step is waiting to be observed
Ready == ev.op = "none"

Init ==
    /\ storage_path \in StorageRoots
    /\ fs = InitFs
    /\ up = [u \in Uploaders |-> Idle]
    /\ ncalls = 0
    /\ ev = NoEv
    /\ root_path = <<>> /\ input_path = <<>> /\ result = NoResult /\ npc = "off"
    /\ first = NoResult

Browse ==
    /\ Ready /\ ncalls < MaxCalls /\ ncalls' = ncalls + 1
    /\ \E source \in Sources, folders_only \in BOOLEAN :
      \E probe_err \in SUBSET ProbedFiles(fs, source, folders_only) :
      \E r \in { browser(fs, source, folders_only, probe_err) } :
        /\ ev' = [Ev("browse", 0, source, <<>>, r) EXCEPT !.probe_err = probe_err]
        /\ fs' = r.fs
        /\ UNCHANGED <<storage_path, up, nvars>>

CreateDirectory ==
    /\ Ready /\ ncalls < MaxCalls /\ ncalls' = ncalls + 1
    /\ \E source \in Sources :
      \E r \in { create_directory(fs, source) } :
        /\ ev' = Ev("create_directory", 0, source, <<>>, r)
        /\ fs' = r.fs
        /\ UNCHANGED <<storage_path, up, nvars>>

RenameFile ==
    /\ Ready /\ ncalls < MaxCalls /\ ncalls' = ncalls + 1
    /\ \E source \in Sources, target \in Sources :
      \E r \in { rename_file(fs, source, target, Held) } :
        /\ ev' = Ev("rename_file", 0, source, target, r)
        /\ fs' = r.fs
        /\ UNCHANGED <<storage_path, up, nvars>>

RemoveFileOrFolder ==
    /\ Ready /\ ncalls < MaxCalls /\ ncalls' = ncalls + 1
    /\ \E source \in Sources :
      \E r \in { remove_file_or_folder(fs, source) } :
        /\ ev' = Ev("remove_file_or_folder", 0, source, <<>>, r)
        /\ fs' = r.fs
        /\ UNCHANGED <<storage_path, up, nvars>>

\* upload is called
UploadCall ==
    /\ Ready /\ ncalls < MaxCalls /\ ncalls' = ncalls + 1
    /\ \E u \in Uploaders, abs_path \in BOOLEAN :
      \E path \in (IF abs_path THEN UploadAbsPaths ELSE UploadDirs) :
        /\ up[u].pc = "idle"
        /\ \A v \in Uploaders : v < u => up[v].pc # "idle"
        /\ up' = [up EXCEPT ![u] = [Idle EXCEPT !.pc = "next", !.path = path,
                                                !.abs_path = abs_path]]
        /\ ev' = [NoEv EXCEPT !.op = "upload:call", !.u = u, !.source = path]
        /\ UNCHANGED <<storage_path, fs, nvars>>

Finish(u, res) == [up[u] EXCEPT !.pc = "done", !.res = res, !.ino = 0]

\* lines 399-430: payload.try_next() yields a part; its target is resolved
\* and tested
UploadPart ==
    /\ Ready /\ UNCHANGED ncalls
    /\ \E u \in Uploaders, client_name \in ClientNames :
        /\ up[u].pc = "next"
        /\ up[u].part < MaxParts
        /\ \E t \in { UploadFilepath(fs, up[u].path, up[u].abs_path,
                                       PartFilename(client_name)) } :
           IF t.res # R_Ok
           THEN /\ up' = [up EXCEPT ![u] = Finish(u, t.res)]
                /\ ev' = UpEv("upload:part", u, t.res, t.sandboxed, t.sandboxed, <<>>)
           ELSE IF TargetTaken(fs, t.path)
           THEN /\ up' = [up EXCEPT ![u] = [Finish(u, R_Conflict) EXCEPT !.filepath = t.path]]
                /\ ev' = UpEv("upload:part", u, R_Conflict, t.sandboxed,
                              t.sandboxed \cup {t.path}, <<>>)
           ELSE /\ up' = [up EXCEPT ![u] = [@ EXCEPT !.pc = "create", !.filepath = t.path,
                                                    !.sandboxed = t.sandboxed,
                                                    !.part = @ + 1]]
                /\ ev' = UpEv("upload:part", u, "", t.sandboxed,
                              t.sandboxed \cup {t.path}, <<>>)
        /\ UNCHANGED <<storage_path, fs, nvars>>

\* line 399: payload.try_next() yields None (Ok) or an error
UploadEnd ==
    /\ Ready /\ UNCHANGED ncalls
    /\ \E u \in Uploaders, res \in {R_Ok, R_StreamIncomplete, R_StreamOther} :
        /\ up[u].pc = "next"
        /\ up' = [up EXCEPT ![u] = Finish(u, res)]
        /\ ev' = UpEv("upload:end", u, res, {}, {}, <<>>)
        /\ UNCHANGED <<storage_path, fs, nvars>>

\* line 432: File::create
UploadCreate ==
    /\ Ready /\ UNCHANGED ncalls
    /\ \E u \in Uploaders :
        /\ up[u].pc = "create"
        /\ \E c \in { fs_create(fs, up[u].filepath, Held) } :
           /\ fs' = c.fs
           /\ IF c.ok
              THEN /\ up' = [up EXCEPT ![u] = [@ EXCEPT !.pc = "stream", !.ino = c.ino,
                                                       !.off = 0]]
                   /\ ev' = UpEv("upload:create", u, "", up[u].sandboxed,
                                 {up[u].filepath}, <<"create:ok">>)
              ELSE /\ up' = [up EXCEPT ![u] = Finish(u, R_IoError)]
                   /\ ev' = UpEv("upload:create", u, R_IoError, up[u].sandboxed,
                                 {up[u].filepath}, <<"create:err">>)
        /\ UNCHANGED <<storage_path, nvars>>

\* lines 436-438: a chunk arrives and is written
UploadChunk ==
    /\ Ready /\ UNCHANGED ncalls
    /\ \E u \in Uploaders :
        /\ up[u].pc = "stream"
        /\ up[u].off < MaxChunks
        /\ fs' = fs_write(fs, up[u].ino, up[u].off, IF u = 1 THEN "u1" ELSE "u2")
        /\ up' = [up EXCEPT ![u] = [@ EXCEPT !.off = @ + 1]]
        /\ ev' = UpEv("upload:chunk", u, "", up[u].sandboxed, {up[u].filepath},
                      <<"write:ok">>)
        /\ UNCHANGED <<storage_path, nvars>>

\* line 440: the part ends
UploadPartEnd ==
    /\ Ready /\ UNCHANGED ncalls
    /\ \E u \in Uploaders :
        /\ up[u].pc = "stream"
        /\ up' = [up EXCEPT ![u] = [@ EXCEPT !.pc = "next", !.ino = 0, !.off = 0]]
        /\ ev' = UpEv("upload:part_end", u, "", up[u].sandboxed, {}, <<>>)
        /\ UNCHANGED <<storage_path, fs, nvars>>

\* lines 442-450: reading the part's next chunk fails
UploadStreamError ==
    /\ Ready /\ UNCHANGED ncalls
    /\ \E u \in Uploaders, e \in {R_StreamIncomplete, R_StreamOther} :
        /\ up[u].pc = "stream"
        /\ IF RemovesOnError(e)
           THEN \E d \in { fs_remove_file(fs, up[u].filepath) } :
                /\ fs' = d.fs
                /\ up' = [up EXCEPT ![u] = Finish(u, IF d.ok THEN e ELSE R_IoError)]
                /\ ev' = [UpEv("upload:stream_error", u, IF d.ok THEN e ELSE R_IoError,
                               up[u].sandboxed, {up[u].filepath},
                               <<IF d.ok THEN "remove_file:ok" ELSE "remove_file:err">>)
                          EXCEPT !.err = e]
           ELSE /\ fs' = fs
                /\ up' = [up EXCEPT ![u] = Finish(u, e)]
                /\ ev' = [UpEv("upload:stream_error", u, e, up[u].sandboxed, {}, <<>>)
                          EXCEPT !.err = e]
        /\ UNCHANGED <<storage_path, nvars>>

\* the record of the step is dropped, and a finished upload call with it
Observed ==
    /\ ~Ready
    /\ ev' = NoEv
    /\ up' = [u \in Uploaders |-> IF up[u].pc = "done" THEN Idle ELSE up[u]]
    /\ UNCHANGED <<storage_path, fs, ncalls, nvars>>

Next ==
    \/ Observed
    \/ Browse
    \/ CreateDirectory
    \/ RenameFile
    \/ RemoveFileOrFolder
    \/ UploadCall
    \/ UploadPart
    \/ UploadEnd
    \/ UploadCreate
    \/ UploadChunk
    \/ UploadPartEnd
    \/ UploadStreamError

Spec == Init /\ [][Next]_vars

----------------------------------------------------------------------------
(* The sandbox specification: norm_abs_path applied to bounded inputs *)

Roots ==
    { Abs(<<S_media, S_chan1>>), Abs(<<S_media>>), Abs(<<S_etc>>), Abs(<<S_media1>>),
      Abs(<<S_home, S_user, S_chan1>>) }

SegNames == { S_dotdot, S_dot, <<".", ".", ".">>, S_media, S_chan1, S_etc }

SegSeqs == UNION { [1..n -> SegNames] : n \in 0..MaxSegs }

\* relative and absolute spellings of every segment sequence, and a
\* trailing separator
Inputs ==
    { JoinSegs(ss) : ss \in SegSeqs } \cup { Abs(ss) : ss \in SegSeqs }
      \cup { JoinSegs(ss) \o <<SLASH>> : ss \in SegSeqs }

NormInit ==
    /\ root_path \in Roots
    /\ input_path \in Inputs
    /\ result = NoResult
    /\ first = NoResult
    /\ npc = "call"
    /\ storage_path = Abs(<<S_media, S_chan1>>)
    /\ fs = InitFs
    /\ up = [u \in Uploaders |-> Idle]
    /\ ncalls = 0
    /\ ev = NoEv

Normalize ==
    /\ npc = "call"
    /\ result' = norm_abs_path(root_path, input_path)
    /\ npc' = "done"
    /\ UNCHANGED <<root_path, input_path, first, fvars>>

\* the relative remainder of an Ok result is given to norm_abs_path again
Renormalize ==
    /\ npc = "done" /\ result.ok
    /\ first' = result
    /\ result' = norm_abs_path(root_path, result.rel)
    /\ npc' = "again"
    /\ UNCHANGED <<root_path, input_path, fvars>>

NormNext == Normalize \/ Renormalize

SpecNorm == NormInit /\ [][NormNext]_vars

----------------------------------------------------------------------------
(* Claims about norm_abs_path *)

\* C1: whenever norm_abs_path returns Ok, the returned path, with its "."
\* and ".." components resolved, is the root or a descendant of the root.
C1_StaysInsideRoot ==
    (npc = "done" /\ result.ok) => IsPrefixSeq(Resolve(root_path), Resolve(result.path))

\* C2: norm_abs_path fails with Forbidden or returns an absolute path that
\* starts with an allow-list prefix or with the home directory.
C2_ForbiddenOrAllowListed ==
    npc = "done" =>
        \/ result = Forbidden
        \/ /\ result.ok
           /\ IsAbsolute(result.path)
           /\ \E f \in FOLDER_WHITELIST \cup {HOME_DIR} :
                 IsPrefixSeq(<<RootDir>> \o Segments(f), <<RootDir>> \o Segments(result.path))

C2_Witness ==
    /\ npc = "done" /\ root_path = Abs(<<S_etc>>) /\ input_path = Abs(<<S_media, S_chan1>>)
    /\ result = Forbidden

\* C12: when norm_abs_path(root, input) returns a descriptor (path, suffix,
\* relative remainder), norm_abs_path(root, relative remainder) returns the
\* same descriptor.
C12_RoundTrip == npc = "again" => result = first

----------------------------------------------------------------------------
(* Claims about the handlers *)

Chan == Abs(<<S_media, S_chan1>>)
TraversalInput == JoinSegs(<<S_dotdot, S_dotdot, S_etc, S_passwd>>)

\* what norm_abs_path gives for the source and the target of the step
EvSrc == norm_abs_path(storage_path, ev.source)
EvTgt == norm_abs_path(storage_path, ev.target)
EvSrcNext == norm_abs_path(storage_path, ev'.source)
EvTgtNext == norm_abs_path(storage_path, ev'.target)

BrowsesTraversal == ev.op = "browse" /\ storage_path = Chan /\ ev.source = TraversalInput

\* C3 as stated: with root /media/chan1, a browse of "../../etc/passwd" fails
\* with Forbidden.
C3_TraversalForbidden == BrowsesTraversal => ev.res = R_Forbidden

\* C3 as amended: with root /media/chan1, the sandbox strips the traversal
\* segments of "../../etc/passwd" and returns /media/chan1/etc/passwd, which
\* passes the allow-list test; browse is not refused: it lists that directory
\* when it exists and fails with an I/O error when it does not.
C3_TraversalConfined ==
    BrowsesTraversal =>
        /\ ev.sandboxed = { Abs(<<S_media, S_chan1, S_etc, S_passwd>>) }
        /\ ev.res = (IF is_dir(fs, Abs(<<S_media, S_chan1, S_etc, S_passwd>>))
                     THEN R_Ok ELSE R_IoError)

C3_Witness == BrowsesTraversal /\ ev.res = R_IoError

\* a touched path is a sandboxed path, the parent directory of one, or one
\* joined with a single name
FromSandbox(p, sandboxed) ==
    \E q \in sandboxed :
        \/ PathEq(p, q)
        \/ (PathParent(p).some /\ PathEq(PathParent(p).val, q))
        \/ (PathParent(q).some /\ PathEq(PathParent(q).val, p))

TouchedIsSandboxed == \A p \in ev.touched : FromSandbox(p, ev.sandboxed)

\* C4 as stated: every path a handler hands to the filesystem, upload with
\* is_absolute = true included, comes from norm_abs_path.
C4_AllPathsSandboxed == TouchedIsSandboxed

\* C4 as amended: every path that browse, create_directory, rename_or_move,
\* delete and upload with is_absolute = false hand to the filesystem is a path
\* norm_abs_path returned for the channel root, its parent directory (browse's
\* parent listing), or such a path joined with the file name; upload with
\* is_absolute = true uses destination_path as given, without the sandbox.
C4_PathsSandboxedUnlessAbsolute ==
    (ev.u = 0 \/ ~up[ev.u].abs_path) => TouchedIsSandboxed

C4_Witness ==
    /\ ev.op = "upload:create" /\ ~up[ev.u].abs_path /\ ev.calls = <<"create:ok">>
    /\ TouchedIsSandboxed

\* C5: when a part's target resolves to a path at which a regular file
\* exists, the call ends with Conflict and the step changes nothing on disk.
C5_ConflictLeavesFile ==
    [][ (/\ ev'.op = "upload:part"
         /\ up'[ev'.u].filepath # <<>>
         /\ is_file(fs, up'[ev'.u].filepath))
        => (/\ ev'.res = R_Conflict
            /\ up'[ev'.u].pc = "done"
            /\ ev'.calls = <<>>
            /\ fs' = fs) ]_vars

C5_Witness ==
    /\ ev.op = "upload:part" /\ ev.res = R_Conflict
    /\ is_file(fs, up[ev.u].filepath) /\ up[ev.u].pc = "done"

\* C6: when the stream of a part ends incomplete after the target file was
\* created, upload returns an error and no file is at the target path.
C6_IncompleteLeavesNoFile ==
    (ev.op = "upload:stream_error" /\ ev.err = R_StreamIncomplete) =>
        /\ up[ev.u].pc = "done"
        /\ up[ev.u].res \in {R_StreamIncomplete, R_IoError}
        /\ ~is_file(fs, up[ev.u].filepath)

C6_Witness ==
    /\ ev.op = "upload:stream_error" /\ ev.err = R_StreamIncomplete
    /\ ev.calls = <<"remove_file:ok">> /\ ~exists(fs, up[ev.u].filepath)

\* C7: on any error of reading a part's chunks, no partial file is left at
\* the target path when upload returns the error.
C7_AnyErrorLeavesNoFile ==
    ev.op = "upload:stream_error" => ~is_file(fs, up[ev.u].filepath)

\* the locations the sandboxed source and target denote have one parent
SameParent(s, t) ==
    /\ s.ok /\ t.ok
    /\ Len(Resolve(s.path)) > 1 /\ Len(Resolve(t.path)) > 1
    /\ NodeParent(Resolve(s.path)) = NodeParent(Resolve(t.path))

HasCopy(calls) == \E i \in 1..Len(calls) : calls[i] \in {"copy:ok", "copy:err"}

\* C8 as stated: a move within one parent directory never executes the
\* copy-then-delete path.
C8_SameParentNeverCopies ==
    (ev.op = "rename_file" /\ SameParent(EvSrc, EvTgt)) => ~HasCopy(ev.calls)

\* C8 as amended: when the source is an existing regular file and the target,
\* in the same parent directory, does not exist, rename_or_move attempts the
\* direct rename first; when it succeeds nothing else is executed, and the
\* copy-then-delete path is executed only after that rename attempt failed.
C8_SameParentRenamesFirst ==
    [][ (/\ ev'.op = "rename_file"
         /\ SameParent(EvSrcNext, EvTgtNext)
         /\ is_file(fs, EvSrcNext.path)
         /\ ~exists(fs, EvTgtNext.path))
        => (/\ ev'.calls # <<>>
            /\ ev'.calls[1] \in {"rename:ok", "rename:err"}
            /\ (ev'.calls[1] = "rename:ok" => ev'.calls = <<"rename:ok">>)) ]_vars

C8_Witness ==
    /\ ev.op = "rename_file" /\ SameParent(EvSrc, EvTgt)
    /\ ev.source = JoinSegs(<<S_a, S_x_mp4>>) /\ ev.target = JoinSegs(<<S_a, S_y_mp4>>)
    /\ ev.calls = <<"rename:ok">>
    /\ is_file(fs, EvTgt.path) /\ ~exists(fs, EvSrc.path)

\* C9: a move whose source exists and whose target (with the source's base
\* name appended when the target is an existing directory) is an existing
\* regular file fails with "Target file already exists!" and changes nothing.
C9_ExistingTargetRefused ==
    [][ (/\ ev'.op = "rename_file"
         /\ EvSrcNext.ok /\ EvTgtNext.ok
         /\ exists(fs, EvSrcNext.path)
         /\ FileName(EvSrcNext.path).some
         /\ is_file(fs, AdjustedTarget(fs, EvSrcNext.path, EvTgtNext.path)))
        => (ev'.res = R_TargetExists /\ fs' = fs) ]_vars

\* C10: delete of a non-empty directory fails with the "must be empty" error
\* and the directory and all it contains are still there.
C10_NonEmptyDirKept ==
    [][ (/\ ev'.op = "remove_file_or_folder"
         /\ EvSrcNext.ok
         /\ is_dir(fs, EvSrcNext.path)
         /\ Children(fs, Lookup(fs, EvSrcNext.path).val) # {})
        => (ev'.res = R_MustBeEmpty /\ fs' = fs) ]_vars

C10_Witness ==
    /\ ev.op = "remove_file_or_folder" /\ ev.source = S_a /\ storage_path = Chan
    /\ ev.res = R_MustBeEmpty
    /\ is_dir(fs, EvSrc.path) /\ Children(fs, Lookup(fs, EvSrc.path).val) # {}

\* the step's operation got Forbidden from the sandbox for one of its paths
SandboxRefusesNext ==
    \/ /\ ev'.op \in {"browse", "create_directory", "remove_file_or_folder"}
       /\ ~EvSrcNext.ok
    \/ /\ ev'.op = "rename_file"
       /\ (~EvSrcNext.ok \/ ~EvTgtNext.ok)
    \/ /\ ev'.op = "upload:part"
       /\ ~up[ev'.u].abs_path
       /\ ~norm_abs_path(storage_path, up[ev'.u].path).ok

\* C11: in browse, create_directory, rename_or_move, delete and upload with
\* is_absolute = false, when the sandbox returns Forbidden for a supplied path
\* (for rename_or_move: the source's or the target's) the operation returns
\* Forbidden, has made no filesystem call and the filesystem is unchanged; an
\* upload refused this way has created no file for an earlier part either.
C11_ForbiddenBeforeMutation ==
    [][ SandboxRefusesNext
        => (/\ ev'.res = R_Forbidden
            /\ ev'.calls = <<>>
            /\ ev'.touched = {}
            /\ fs' = fs
            /\ (ev'.op = "upload:part" =>
                   /\ up'[ev'.u].pc = "done" /\ up'[ev'.u].res = R_Forbidden
                   /\ up[ev'.u].part = 0)) ]_vars

\* a move whose source sandboxes to an existing directory and whose target is
\* Forbidden
C11_Witness ==
    /\ ev.op = "rename_file" /\ EvSrc.ok /\ ~EvTgt.ok
    /\ is_dir(fs, EvSrc.path)
    /\ ev.res = R_Forbidden /\ ev.calls = <<>>

\* g is f with directories added on the way to node n and nothing else
AddsDirsToward(f, g, n) ==
    /\ \A m \in DOMAIN f : m \in DOMAIN g /\ g[m] = f[m]
    /\ \A m \in DOMAIN g \ DOMAIN f : g[m] = DirEntry /\ IsPrefixSeq(m, n)

\* C13: a create_directory that succeeds leaves the sandboxed path and every
\* ancestor of it a directory, adding only those directories; on a path that
\* is already a directory (a repeated call) it succeeds and leaves the
\* filesystem as it was.
C13_CreateIdempotent ==
    [][ (ev'.op = "create_directory" /\ EvSrcNext.ok)
        => (/\ (ev'.res = R_Ok =>
                   /\ is_dir(fs', EvSrcNext.path)
                   /\ \A k \in 0..Len(Lookup(fs', EvSrcNext.path).val) :
                         NodeIsDir(fs', SubSeq(Lookup(fs', EvSrcNext.path).val, 1, k))
                   /\ AddsDirsToward(fs, fs', Lookup(fs', EvSrcNext.path).val)
                   /\ create_directory(fs', ev'.source).res = R_Ok
                   /\ create_directory(fs', ev'.source).fs = fs')
            /\ (is_dir(fs, EvSrcNext.path) => (ev'.res = R_Ok /\ fs' = fs))) ]_vars

\* the second of two calls with share/ffplayout, neither segment of which
\* existed at the start
C13_Witness ==
    /\ ev.op = "create_directory" /\ ev.source = JoinSegs(<<S_share, S_ffplayout>>)
    /\ storage_path = Chan /\ ncalls = 2
    /\ ev.res = R_Ok /\ ev.calls = <<"create_dir_all:ok">>
    /\ is_dir(fs, Abs(<<S_media, S_chan1, S_share>>))
    /\ is_dir(fs, Abs(<<S_media, S_chan1, S_share, S_ffplayout>>))

\* C14: when the probe of listed files fails, the browse call still succeeds;
\* the files whose probe failed are not in the returned files, and every
\* folder and every other file with an allowed extension is (entries whose
\* path contains "/." are hidden and never probed).
C14_ProbeErrorOmitsFile ==
    [][ (ev'.op = "browse" /\ ev'.probe_err # {})
        => (/\ ev'.res = R_Ok
            /\ fs' = fs
            /\ ev'.out.files \cap ev'.probe_err = {}
            /\ \A name \in { c \in ReadDir(fs, EvSrcNext.path) :
                              ~Contains(PathJoin(EvSrcNext.path, c), <<SLASH, DOT>>) } :
                  /\ is_dir(fs, PathJoin(EvSrcNext.path, name)) => name \in ev'.out.folders
                  /\ (/\ is_file(fs, PathJoin(EvSrcNext.path, name))
                      /\ file_extension(name).some
                      /\ to_lowercase(file_extension(name).val) \in extensions
                      /\ name \notin ev'.probe_err)
                     => name \in ev'.out.files) ]_vars

\* a listing of two files of which one failed its probe
C14_Witness ==
    /\ ev.op = "browse" /\ ev.res = R_Ok
    /\ ev.probe_err # {} /\ ev.out.files # {}
    /\ ev.out.files \cap ev.probe_err = {}

\* the data of the regular file at path p
DataAt(f, p) == f[Lookup(f, p).val].data

\* the regular file at path p has inode number i
NodeAtIno(f, p, i) == f[Lookup(f, p).val].ino = i

\* C15: a move attempts the rename first, the copy only after the rename
\* failed and the removal of the source only after the copy succeeded; when
\* that removal fails the call returns an error and the source and the copy
\* at the target both exist; when the copy fails the call returns an error
\* and the source is still in place.
C15_MovePhases ==
    [][ (ev'.op = "rename_file" /\ ev'.calls # <<>>)
        => (/\ ev'.calls \in { <<"rename:ok">>,
                               <<"rename:err", "copy:err">>,
                               <<"rename:err", "copy:ok", "remove_file:ok">>,
                               <<"rename:err", "copy:ok", "remove_file:err">> }
            /\ (ev'.calls = <<"rename:err", "copy:ok", "remove_file:err">> =>
                   /\ ev'.res = R_RemoveFailed
                   /\ is_file(fs', EvSrcNext.path)
                   /\ DataAt(fs', EvSrcNext.path) = DataAt(fs, EvSrcNext.path)
                   /\ \E t \in ev'.touched :
                         /\ is_file(fs', t)
                         /\ Lookup(fs', t) # Lookup(fs', EvSrcNext.path)
                         /\ DataAt(fs', t) = DataAt(fs, EvSrcNext.path))
            /\ (ev'.calls = <<"rename:err", "copy:err">> =>
                   /\ ev'.res = R_CopyFailed
                   /\ exists(fs', EvSrcNext.path)
                   /\ fs' = fs)) ]_vars

\* a move out of the read-only directory: the copy is made, the source cannot
\* be removed
C15_Witness ==
    /\ ev.op = "rename_file" /\ ev.res = R_RemoveFailed
    /\ ev.calls = <<"rename:err", "copy:ok", "remove_file:err">>
    /\ is_file(fs, EvSrc.path)
    /\ \E t \in ev.touched :
          is_file(fs, t) /\ Lookup(fs, t) # Lookup(fs, EvSrc.path)
          /\ DataAt(fs, t) = DataAt(fs, EvSrc.path)

\* C16: for a source that exists as a regular file or as a directory, and any
\* sandboxed target, neither rename_or_move nor delete returns
\* InternalServerError.
C16_InternalErrorUnreachable ==
    [][ (/\ ev'.op \in {"rename_file", "remove_file_or_folder"}
         /\ EvSrcNext.ok
         /\ (ev'.op = "rename_file" => EvTgtNext.ok)
         /\ (is_file(fs, EvSrcNext.path) \/ is_dir(fs, EvSrcNext.path)))
        => ev'.res # R_Internal ]_vars

\* another upload call is at stage pc for the path the stepping call has
PeerAt(u, pc) ==
    { v \in Uploaders \ {u} : up[v].pc = pc /\ PathEq(up[v].filepath, up'[u].filepath) }

\* C17: nothing is held between the existence check and the creation of the
\* file.  A call whose target does not exist passes the check although
\* another call has passed it for the same target and not yet created the
\* file; its File::create succeeds although the other call has the file open,
\* truncates it and opens the same file; and its chunks are written into that
\* file.  Neither call gets Conflict.
C17_CheckThenCreateRace ==
    [][ /\ (/\ ev'.op = "upload:part"
            /\ up'[ev'.u].filepath # <<>>
            /\ ~is_file(fs, up'[ev'.u].filepath)
            /\ PeerAt(ev'.u, "create") # {})
           => (up'[ev'.u].pc = "create" /\ ev'.res = "" /\ fs' = fs)
        /\ \A v \in (IF ev'.op = "upload:create" THEN PeerAt(ev'.u, "stream") ELSE {}) :
              (is_file(fs, up[v].filepath) /\ NodeAtIno(fs, up[v].filepath, up[v].ino))
              => (/\ ev'.calls = <<"create:ok">>
                  /\ up'[ev'.u].pc = "stream"
                  /\ up'[ev'.u].ino = up[v].ino
                  /\ DataAt(fs', up[v].filepath) = <<>>)
        /\ \A v \in (IF ev'.op = "upload:chunk" THEN PeerAt(ev'.u, "stream") ELSE {}) :
              (is_file(fs, up[v].filepath) /\ up[v].ino = up[ev'.u].ino
               /\ NodeAtIno(fs, up[v].filepath, up[v].ino))
              => DataAt(fs', up[v].filepath)[up[ev'.u].off + 1]
                    = (IF ev'.u = 1 THEN "u1" ELSE "u2") ]_vars

\* both calls were given the same absolute destination, both have created the
\* file and both have written a chunk into it
C17_Witness ==
    /\ \A u \in Uploaders :
          /\ up[u].pc = "stream" /\ up[u].abs_path /\ up[u].off = 1
          /\ up[u].filepath = Abs(<<S_media, S_chan1, S_a, S_y_mp4>>)
    /\ up[1].ino = up[2].ino
    /\ is_file(fs, Abs(<<S_media, S_chan1, S_a, S_y_mp4>>))
    /\ NodeAtIno(fs, Abs(<<S_media, S_chan1, S_a, S_y_mp4>>), up[1].ino)

\* the data d is in the regular file at path p
HasData(f, p, d) == is_file(f, p) /\ DataAt(f, p) = d

\* C18: a move whose source is an existing regular file leaves, whether it
\* returns Ok or an error, the source's data at the source path or at the
\* target path (the target with the source's file name when the target is a
\* directory).
C18_MoveKeepsData ==
    [][ (/\ ev'.op = "rename_file"
         /\ EvSrcNext.ok
         /\ is_file(fs, EvSrcNext.path))
        => (\/ HasData(fs', EvSrcNext.path, DataAt(fs, EvSrcNext.path))
            \/ /\ EvTgtNext.ok
               /\ \/ HasData(fs', EvTgtNext.path, DataAt(fs, EvSrcNext.path))
                  \/ HasData(fs', AdjustedTarget(fs, EvSrcNext.path, EvTgtNext.path),
                             DataAt(fs, EvSrcNext.path))) ]_vars

\* a move into the directory on the other device: the rename failed, the
\* source was copied and removed
C18_Witness ==
    /\ ev.op = "rename_file" /\ ev.res = R_Ok
    /\ ev.calls = <<"rename:err", "copy:ok", "remove_file:ok">>
    /\ ev.source = JoinSegs(<<S_a, S_y_mp4>>) /\ ev.target = S_b
    /\ ~exists(fs, EvSrc.path)
    /\ HasData(fs, Abs(<<S_media, S_chan1, S_b, S_y_mp4>>), <<"x0">>)

\* a part after the first of an upload with is_absolute = true is resolved
LaterAbsolutePartNext ==
    ev'.op = "upload:part" /\ up[ev'.u].abs_path /\ up[ev'.u].part >= 1

\* C19 as stated: in an upload with is_absolute = true every part after the
\* first fails with Conflict.
C19_SecondPartConflicts ==
    [][ LaterAbsolutePartNext => ev'.res = R_Conflict ]_vars

\* C19 as amended: in an upload with is_absolute = true every part resolves to
\* destination_path; a part after the first fails with Conflict, the call
\* returning that error and the file staying as it is, when the file is
\* still at destination_path; when another call has removed or moved the
\* file in between, the part passes the test and the file is created again.
C19_SecondPartConflictsIfFileStays ==
    [][ LaterAbsolutePartNext
        => (/\ up'[ev'.u].filepath = up[ev'.u].path
            /\ fs' = fs
            /\ IF is_file(fs, up[ev'.u].path)
               THEN ev'.res = R_Conflict /\ up'[ev'.u].pc = "done"
                    /\ up'[ev'.u].res = R_Conflict
               ELSE ev'.res = "" /\ up'[ev'.u].pc = "create") ]_vars

\* the second part of the first call meets the file its first part wrote
C19_Witness ==
    /\ ev.op = "upload:part" /\ ev.u = 1 /\ up[1].abs_path /\ up[1].part = 1
    /\ ev.res = R_Conflict /\ up[1].pc = "done"
    /\ HasData(fs, up[1].path, <<"u1">>)

====
